---------------------------- MODULE Spec2Model ----------------------------
(***************************************************************************)
(* A model of ggez's TextCached (src/graphics/text_cached.rs): the         *)
(* fragment list, the wrap bounds and layout, the three lazily filled      *)
(* caches, the layout section built for the glyph brush, and the shared    *)
(* glyph queue that draw_queued flushes.                                   *)
(*                                                                         *)
(* Conventions.  Option<T> is a sequence of length at most one: None is    *)
(* <<>> and Some(x) is <<x>>.  A String is a sequence of characters.       *)
(* f32 values are integers; the extents the model feeds to set_bounds are  *)
(* even, so that the f32 product x * 0.5 (exact in f32) is x \div 2.       *)
(* Vec indices are 0-based in the source and 1-based here: the source's    *)
(* fragments[i] is fragments[i + 1].                                       *)
(***************************************************************************)
EXTENDS Integers, Sequences, FiniteSets, TLC

VARIABLES
    texts,        \* the TextCached values of the program, by identity
    glyph_queue,  \* context.gfx_context.glyph_brush: the sections queued and not yet drawn
    foreground,   \* what get_color(context) returns
    screen_rect,  \* context.gfx_context.screen_rect (w, h)
    drawn,        \* what the last call made the glyph brush draw: None or Some(batch)
    passes,       \* calls of calculate_glyphs since the last mutation (counting stub)
    measured,     \* the measurements ("width", "height") called since the last mutation
    last          \* the last call made: operation, receiver, arguments, outcome

vars == <<texts, glyph_queue, foreground, screen_rect, drawn, passes, measured, last>>

-----------------------------------------------------------------------------
(* Bounds of the model *)

MaxFrags == 2      \* fragments per TextCached
MaxPasses == 3     \* the counting stub saturates here
MaxQueue == 2      \* sections in the glyph queue

-----------------------------------------------------------------------------
(* Values *)

None == <<>>
Some(x) == <<x>>
is_some(o) == o # <<>>
unwrap(o) == o[1]

INFINITY == 1000000
DEFAULT_FONT_SCALE == 16

Point2(x, y) == [x |-> x, y |-> y]
Scale_uniform(s) == [x |-> s, y |-> s]
FontId_default == 0

\* gfx_glyph::Layout<BuiltInLineBreaker>: SingleLine or Wrap, each with alignments
Layout(kind, h, v) == [kind |-> kind, h_align |-> h, v_align |-> v]
Layout_default == Layout("Wrap", "Left", "Top")

TextFragment_default == [text |-> <<>>, color |-> None, font_id |-> None, scale |-> None]

From_text(text) == [TextFragment_default EXCEPT !.text = text]
From_text_color(text, color) ==
    [TextFragment_default EXCEPT !.text = text, !.color = Some(color)]
From_text_font_scale(text, font_id, scale) ==
    [TextFragment_default EXCEPT !.text = text, !.font_id = Some(font_id),
                                 !.scale = Some(scale)]

TextCached_default ==
    [fragments     |-> <<>>,
     blend_mode    |-> None,
     bounds        |-> Point2(INFINITY, INFINITY),
     layout        |-> Layout_default,
     font_id       |-> FontId_default,
     font_scale    |-> Scale_uniform(DEFAULT_FONT_SCALE),
     cached_string |-> None,
     cached_width  |-> None,
     cached_height |-> None]

-----------------------------------------------------------------------------
(* Inputs *)

TextIds == {1, 2}

\* graphics::Color, an RGBA quadruple
Color(r, g, b, a) == [r |-> r, g |-> g, b |-> b, a |-> a]
RED == Color(1, 0, 0, 1)
GREEN == Color(0, 1, 0, 1)
BLUE == Color(0, 0, 1, 1)
WHITE == Color(1, 1, 1, 1)

Colors == {RED, GREEN}
ContextColors == {WHITE, BLUE}

BlendModes == {None, Some("Add")}

Fragments ==
    { From_text(<<"H", "i">>),
      From_text_color(<<"W">>, RED),
      From_text_font_scale(<<" ">>, 1, Scale_uniform(8)) }

Extents == { Point2(INFINITY, INFINITY), Point2(4, INFINITY), Point2(2, 6) }

Layouts ==
    { Layout_default,
      Layout("Wrap", "Center", "Top"),
      Layout("Wrap", "Right", "Center"),
      Layout("SingleLine", "Right", "Bottom") }

FontArgs == { <<1, Scale_uniform(8)>>, <<0, Scale_uniform(16)>> }

Dests == { Point2(0, 0), Point2(3, 5) }

ColorArgs == { None, Some(GREEN) }

FlushResults == { "Ok", "texture error" }

\* a section built by the caller, for queue_raw
RawSections ==
    { [screen_position |-> <<1, 1>>,
       bounds          |-> <<INFINITY, INFINITY>>,
       layout          |-> Layout_default,
       text            |-> << [text |-> <<"r">>, color |-> <<1, 1, 1, 1>>,
                               font_id |-> 0, scale |-> Scale_uniform(16)] >>] }

CustomLayouts == { None, Some(Layout("SingleLine", "Left", "Top")) }

-----------------------------------------------------------------------------
(* The glyph brush's layout, gfx_glyph's GlyphPositioner::calculate_glyphs: *)
(* an abstraction of the library with fixed-pitch fonts.  A glyph of a run  *)
(* with scale s in font f advances the pen by (f + 1) * s.x / 8 pixels and  *)
(* is s.y / 8 pixels high; a space advances the pen and has no bounding     *)
(* box.  A Wrap layout starts a new line before a glyph that would cross    *)
(* bounds.x; each line is aligned about the section's screen position.      *)

RECURSIVE section_glyphs(_, _)
section_glyphs(runs, r) ==
    IF r > Len(runs) THEN <<>>
    ELSE [k \in 1..Len(runs[r].text) |->
            [run     |-> r,
             advance |-> ((runs[r].font_id + 1) * runs[r].scale.x) \div 8,
             height  |-> runs[r].scale.y \div 8,
             visible |-> runs[r].text[k] # " "]]
         \o section_glyphs(runs, r + 1)

RECURSIVE line_advance(_)
line_advance(line) ==
    IF line = <<>> THEN 0 ELSE Head(line).advance + line_advance(Tail(line))

RECURSIVE line_height(_)
line_height(line) ==
    IF line = <<>> THEN 0
    ELSE LET h == line_height(Tail(line))
         IN  IF Head(line).height > h THEN Head(line).height ELSE h

RECURSIVE break_lines(_, _, _, _)
break_lines(glyphs, section, line, lines) ==
    IF glyphs = <<>>
    THEN IF line = <<>> THEN lines ELSE Append(lines, line)
    ELSE IF /\ section.layout.kind = "Wrap"
            /\ line # <<>>
            /\ line_advance(line) + Head(glyphs).advance > section.bounds[1]
         THEN break_lines(glyphs, section, <<>>, Append(lines, line))
         ELSE break_lines(Tail(glyphs), section, Append(line, Head(glyphs)), lines)

RECURSIVE lines_height(_)
lines_height(lines) ==
    IF lines = <<>> THEN 0 ELSE line_height(Head(lines)) + lines_height(Tail(lines))

RECURSIVE position_line(_, _, _)
position_line(line, x, y) ==
    IF line = <<>> THEN <<>>
    ELSE <<[run |-> Head(line).run,
            pixel_bounding_box |->
                IF Head(line).visible
                THEN Some([min |-> Point2(x, y),
                           max |-> Point2(x + Head(line).advance, y + Head(line).height)])
                ELSE None]>>
         \o position_line(Tail(line), x + Head(line).advance, y)

RECURSIVE position_lines(_, _, _)
position_lines(lines, section, y) ==
    IF lines = <<>> THEN <<>>
    ELSE LET line == Head(lines)
             w == line_advance(line)
             x == CASE section.layout.h_align = "Left" -> section.screen_position[1]
                    [] section.layout.h_align = "Center" ->
                           section.screen_position[1] - (w \div 2)
                    [] section.layout.h_align = "Right" -> section.screen_position[1] - w
         IN  position_line(line, x, y)
             \o position_lines(Tail(lines), section, y + line_height(line))

\* one GlyphedSectionText (a sequence of positioned glyphs) per run of the section
calculate_glyphs(section) ==
    LET lines == break_lines(section_glyphs(section.text, 1), section, <<>>, <<>>)
        h == lines_height(lines)
        y == CASE section.layout.v_align = "Top" -> section.screen_position[2]
               [] section.layout.v_align = "Center" -> section.screen_position[2] - (h \div 2)
               [] section.layout.v_align = "Bottom" -> section.screen_position[2] - h
        glyphs == position_lines(lines, section, y)
    IN  [r \in 1..Len(section.text) |-> SelectSeq(glyphs, LAMBDA g : g.run = r)]


-----------------------------------------------------------------------------
(* TextCached *)

\* a slip: the dimension caches survive a mutation
invalidate_caches_keeps_dimensions(self) == [self EXCEPT !.cached_string = None]

\* a slip: the cached string survives a mutation
invalidate_caches_keeps_string(self) ==
    [self EXCEPT !.cached_width = None, !.cached_height = None]

\* a slip: the cached height survives a mutation
invalidate_caches_keeps_height(self) ==
    [self EXCEPT !.cached_string = None, !.cached_width = None]

invalidate_caches(self) ==
    [self EXCEPT !.cached_string = None, !.cached_width = None, !.cached_height = None]

add_fragment(self, fragment) ==
    invalidate_caches([self EXCEPT !.fragments = Append(@, fragment)])

new_empty == TextCached_default

new(fragment) == add_fragment(new_empty, fragment)

\* the bounds check of self.fragments[old_index], which panics when it fails
index_in_range(self, old_index) == old_index < Len(self.fragments)

\* a slip: an index past the end appends instead of panicking
replace_fragment_appends(self, old_index, new_fragment) ==
    IF index_in_range(self, old_index)
    THEN [self   |-> invalidate_caches(
                         [self EXCEPT !.fragments[old_index + 1] = new_fragment]),
          status |-> "Ok"]
    ELSE [self   |-> invalidate_caches([self EXCEPT !.fragments = Append(@, new_fragment)]),
          status |-> "Ok"]

\* the receiver afterwards, and whether the call returned ("Ok") or panicked
replace_fragment(self, old_index, new_fragment) ==
    IF index_in_range(self, old_index)
    THEN [self   |-> invalidate_caches(
                         [self EXCEPT !.fragments[old_index + 1] = new_fragment]),
          status |-> "Ok"]
    ELSE [self |-> self, status |-> "Panic"]

\* a slip: an explicit layout is adopted whatever the bounds
set_bounds_adopts_layout(self, bounds, layout) ==
    LET bounded == [self EXCEPT !.bounds = bounds]
    IN  invalidate_caches(
            IF is_some(layout)
            THEN [bounded EXCEPT !.layout = unwrap(layout)]
            ELSE IF bounded.bounds.x = INFINITY
                 THEN [bounded EXCEPT !.layout = Layout_default]
                 ELSE bounded)

\* a slip: infinite bounds leave the layout alone
set_bounds_keeps_layout(self, bounds, layout) ==
    LET bounded == [self EXCEPT !.bounds = bounds]
    IN  invalidate_caches(
            IF bounded.bounds.x = INFINITY
            THEN bounded
            ELSE IF is_some(layout)
                 THEN [bounded EXCEPT !.layout = unwrap(layout)]
                 ELSE bounded)

\* a slip: finite bounds without a layout bring the default layout back
set_bounds_none_resets(self, bounds, layout) ==
    LET bounded == [self EXCEPT !.bounds = bounds]
    IN  invalidate_caches(
            IF bounded.bounds.x = INFINITY
            THEN [bounded EXCEPT !.layout = Layout_default]
            ELSE IF is_some(layout)
                 THEN [bounded EXCEPT !.layout = unwrap(layout)]
                 ELSE [bounded EXCEPT !.layout = Layout_default])

set_bounds(self, bounds, layout) ==
    LET bounded == [self EXCEPT !.bounds = bounds]
    IN  invalidate_caches(
            IF bounded.bounds.x = INFINITY
            THEN [bounded EXCEPT !.layout = Layout_default]
            ELSE IF is_some(layout)
                 THEN [bounded EXCEPT !.layout = unwrap(layout)]
                 ELSE bounded)

set_font(self, font_id, font_scale) ==
    invalidate_caches([self EXCEPT !.font_id = font_id, !.font_scale = font_scale])

set_blend_mode(self, mode) == [self EXCEPT !.blend_mode = mode]

get_blend_mode(self) == self.blend_mode

\* <[f32; 4]>::from(color)
color_array(c) == <<c.r, c.g, c.b, c.a>>

\* a slip: the override color wins over the fragment's own color
section_text_override_first(self, fragment, context_color, color) ==
    [text    |-> fragment.text,
     color   |-> color_array(IF is_some(color) THEN unwrap(color)
                             ELSE IF is_some(fragment.color) THEN unwrap(fragment.color)
                             ELSE context_color),
     font_id |-> IF is_some(fragment.font_id) THEN unwrap(fragment.font_id)
                 ELSE self.font_id,
     scale   |-> IF is_some(fragment.scale) THEN unwrap(fragment.scale)
                 ELSE self.font_scale]

\* the SectionText pushed for one fragment
section_text(self, fragment, context_color, color) ==
    [text    |-> fragment.text,
     color   |-> color_array(IF is_some(fragment.color) THEN unwrap(fragment.color)
                             ELSE IF is_some(color) THEN unwrap(color)
                             ELSE context_color),
     font_id |-> IF is_some(fragment.font_id) THEN unwrap(fragment.font_id)
                 ELSE self.font_id,
     scale   |-> IF is_some(fragment.scale) THEN unwrap(fragment.scale)
                 ELSE self.font_scale]

\* a slip: the shift is applied whatever the kind of the layout
dest_x_any_layout(self, relative_dest) ==
    IF self.bounds.x # INFINITY
    THEN CASE self.layout.h_align = "Center" -> relative_dest.x + (self.bounds.x \div 2)
           [] self.layout.h_align = "Right" -> relative_dest.x + self.bounds.x
           [] OTHER -> relative_dest.x
    ELSE relative_dest.x

\* the x of the section's screen position
dest_x(self, relative_dest) ==
    IF self.bounds.x # INFINITY /\ self.layout.kind = "Wrap"
    THEN CASE self.layout.h_align = "Center" -> relative_dest.x + (self.bounds.x \div 2)
           [] self.layout.h_align = "Right" -> relative_dest.x + self.bounds.x
           [] OTHER -> relative_dest.x
    ELSE relative_dest.x

\* a slip: the runs are emitted last fragment first
generate_varied_section_reversed(self, context_color, relative_dest, color) ==
    [screen_position |-> <<dest_x(self, relative_dest), relative_dest.y>>,
     bounds          |-> <<self.bounds.x, self.bounds.y>>,
     layout          |-> self.layout,
     text            |-> [i \in 1..Len(self.fragments) |->
                             section_text(self, self.fragments[Len(self.fragments) + 1 - i],
                                          context_color, color)]]

generate_varied_section(self, context_color, relative_dest, color) ==
    [screen_position |-> <<dest_x(self, relative_dest), relative_dest.y>>,
     bounds          |-> <<self.bounds.x, self.bounds.y>>,
     layout          |-> self.layout,
     text            |-> [i \in 1..Len(self.fragments) |->
                             section_text(self, self.fragments[i], context_color, color)]]

\* max_width as u32, max_height as u32: an i32 cast to u32
as_u32(v) == IF v >= 0 THEN v ELSE v + 2^32

\* a slip: the left and top edges are measured
RECURSIVE max_extent_of_min(_, _)
max_extent_of_min(glyphs, acc) ==
    IF glyphs = <<>> THEN acc
    ELSE LET g == Head(glyphs)
             next == IF is_some(g.pixel_bounding_box)
                     THEN LET rect == unwrap(g.pixel_bounding_box)
                          IN  <<IF rect.min.x > acc[1] THEN rect.min.x ELSE acc[1],
                                IF rect.min.y > acc[2] THEN rect.min.y ELSE acc[2]>>
                     ELSE acc
         IN  max_extent_of_min(Tail(glyphs), next)

\* the loops over the glyphs' pixel bounding boxes, from max_width = max_height = 0
RECURSIVE max_extent(_, _)
max_extent(glyphs, acc) ==
    IF glyphs = <<>> THEN acc
    ELSE LET g == Head(glyphs)
             next == IF is_some(g.pixel_bounding_box)
                     THEN LET rect == unwrap(g.pixel_bounding_box)
                          IN  <<IF rect.max.x > acc[1] THEN rect.max.x ELSE acc[1],
                                IF rect.max.y > acc[2] THEN rect.max.y ELSE acc[2]>>
                     ELSE acc
         IN  max_extent(Tail(glyphs), next)

RECURSIVE max_extents(_, _)
max_extents(glyphed_section_texts, acc) ==
    IF glyphed_section_texts = <<>> THEN acc
    ELSE max_extents(Tail(glyphed_section_texts),
                     max_extent(Head(glyphed_section_texts), acc))

\* the record of a &mut self call: the receiver afterwards, the value returned,
\* and the number of calculate_glyphs calls it made
Call(self, ret, calls) == [self |-> self, ret |-> ret, calls |-> calls]

\* a slip: only the width is cached
calculate_dimensions_caches_width(self, context_color) ==
    LET varied_section == generate_varied_section(self, context_color, Point2(0, 0), None)
        m == max_extents(calculate_glyphs(varied_section), <<0, 0>>)
    IN  Call([self EXCEPT !.cached_width = Some(as_u32(m[1]))],
             <<as_u32(m[1]), as_u32(m[2])>>, 1)

calculate_dimensions(self, context_color) ==
    LET varied_section == generate_varied_section(self, context_color, Point2(0, 0), None)
        glyphed_section_texts == calculate_glyphs(varied_section)
        m == max_extents(glyphed_section_texts, <<0, 0>>)
        width == as_u32(m[1])
        height == as_u32(m[2])
    IN  Call([self EXCEPT !.cached_width = Some(width), !.cached_height = Some(height)],
             <<width, height>>, 1)

width(self, context_color) ==
    IF is_some(self.cached_width)
    THEN Call(self, unwrap(self.cached_width), 0)
    ELSE LET c == calculate_dimensions(self, context_color)
         IN  Call(c.self, c.ret[1], c.calls)

height(self, context_color) ==
    IF is_some(self.cached_height)
    THEN Call(self, unwrap(self.cached_height), 0)
    ELSE LET c == calculate_dimensions(self, context_color)
         IN  Call(c.self, c.ret[2], c.calls)

\* a slip: format!("{}{}", frg.text, acc)
RECURSIVE fold_text_prepends(_, _)
fold_text_prepends(fragments, acc) ==
    IF fragments = <<>> THEN acc
    ELSE fold_text_prepends(Tail(fragments), Head(fragments).text \o acc)

\* fragments.iter().fold("".to_string(), |acc, frg| format!("{}{}", acc, frg.text))
RECURSIVE fold_text(_, _)
fold_text(fragments, acc) ==
    IF fragments = <<>> THEN acc
    ELSE fold_text(Tail(fragments), acc \o Head(fragments).text)

contents(self) ==
    IF is_some(self.cached_string)
    THEN Call(self, unwrap(self.cached_string), 0)
    ELSE LET string == fold_text(self.fragments, <<>>)
         IN  Call([self EXCEPT !.cached_string = Some(string)], string, 0)

-----------------------------------------------------------------------------
(* 4x4 matrices (na::Matrix4<f32>).  The entries are rationals: a matrix is *)
(* a table n of integers over one positive denominator d.  An angle is a    *)
(* whole number of quarter turns, so that its sine and cosine are integers. *)

Mat4(n, d) == [n |-> n, d |-> d]

\* Mat4::new takes the sixteen entries row by row: here, the four rows
Mat4_new(row1, row2, row3, row4, d) == Mat4(<<row1, row2, row3, row4>>, d)

\* the vector (x/d, y/d, z/d)
Mat4_new_nonuniform_scaling(x, y, z, d) ==
    Mat4_new(<<x, 0, 0, 0>>, <<0, y, 0, 0>>, <<0, 0, z, 0>>, <<0, 0, 0, d>>, d)

Mat4_new_translation(x, y, z, d) ==
    Mat4_new(<<d, 0, 0, x>>, <<0, d, 0, y>>, <<0, 0, d, z>>, <<0, 0, 0, d>>, d)

cos_quarter(q) == CASE q % 4 = 0 -> 1 [] q % 4 = 1 -> 0 [] q % 4 = 2 -> -1 [] OTHER -> 0
sin_quarter(q) == CASE q % 4 = 0 -> 0 [] q % 4 = 1 -> 1 [] q % 4 = 2 -> 0 [] OTHER -> -1

\* the rotation about the z axis by q quarter turns
Mat4_new_rotation_z(q) ==
    Mat4_new(<<cos_quarter(q), -sin_quarter(q), 0, 0>>,
             <<sin_quarter(q), cos_quarter(q), 0, 0>>,
             <<0, 0, 1, 0>>,
             <<0, 0, 0, 1>>, 1)

Mat4_dot(a, b, i, j) ==
    a.n[i][1] * b.n[1][j] + a.n[i][2] * b.n[2][j] + a.n[i][3] * b.n[3][j] + a.n[i][4] * b.n[4][j]

Mat4_row(a, b, i) ==
    <<Mat4_dot(a, b, i, 1), Mat4_dot(a, b, i, 2), Mat4_dot(a, b, i, 3), Mat4_dot(a, b, i, 4)>>

Mat4_mul(a, b) ==
    Mat4(<<Mat4_row(a, b, 1), Mat4_row(a, b, 2), Mat4_row(a, b, 3), Mat4_row(a, b, 4)>>,
         a.d * b.d)

Abs(v) == IF v < 0 THEN -v ELSE v

RECURSIVE GCD(_, _)
GCD(a, b) == IF b = 0 THEN Abs(a) ELSE GCD(b, a % Abs(b))

RECURSIVE GCD_all(_, _)
GCD_all(values, g) ==
    IF values = <<>> THEN g ELSE GCD_all(Tail(values), GCD(g, Head(values)))

\* m.into(): the [[f32; 4]; 4] of the matrix, column by column, in lowest terms
Mat4_into(m) ==
    LET g == GCD_all(m.n[1] \o m.n[2] \o m.n[3] \o m.n[4], m.d)
        column(j) == <<m.n[1][j] \div g, m.n[2][j] \div g, m.n[3][j] \div g, m.n[4][j] \div g>>
    IN  [c |-> <<column(1), column(2), column(3), column(4)>>, d |-> m.d \div g]

-----------------------------------------------------------------------------
(* DrawParam *)

DrawParam_default ==
    [dest     |-> Point2(0, 0),
     rotation |-> 0,
     scale    |-> Point2(1, 1),
     offset   |-> Point2(0, 0),
     shear    |-> Point2(0, 0),
     color    |-> None]

\* impl From<(Point2, f32)> for DrawParam
DrawParam_from(dest, rotation) ==
    [DrawParam_default EXCEPT !.dest = dest, !.rotation = rotation]

-----------------------------------------------------------------------------
(* Queueing and drawing *)

\* GlyphBrush::queue_custom_layout: the section joins the queue with its positioner
brush_queue_custom_layout(queue, section, custom_layout) ==
    Append(queue, [section |-> section, positioner |-> custom_layout])

\* GlyphBrush::queue: the section's own layout is the positioner
brush_queue(queue, section) == brush_queue_custom_layout(queue, section, section.layout)

\* a slip: the section is put at the head of the queue
queue_at_head(self, queued, context_color, relative_dest, color) ==
    LET section == generate_varied_section(self, context_color, relative_dest, color)
    IN  <<[section |-> section, positioner |-> section.layout]>> \o queued

\* the glyph queue after self.queue(context, relative_dest, color)
queue(self, queued, context_color, relative_dest, color) ==
    brush_queue(queued, generate_varied_section(self, context_color, relative_dest, color))

\* the glyph queue after TextCached::queue_raw(context, section, custom_layout)
queue_raw(queued, section, custom_layout) ==
    IF is_some(custom_layout)
    THEN brush_queue_custom_layout(queued, section, unwrap(custom_layout))
    ELSE brush_queue(queued, section)

\* a slip: the sub-image offset is added to the destination
draw_transform_adds_offset(param, screen) ==
    LET m_aspect == Mat4_new_nonuniform_scaling(screen.h, screen.w, screen.h, screen.h)
        m_aspect_inv == Mat4_new_nonuniform_scaling(screen.w, screen.h, screen.w, screen.w)
        m_scale == Mat4_new_nonuniform_scaling(param.scale.x, param.scale.y, 1, 1)
        m_shear == Mat4_new(<<1, -param.shear.x, 0, 0>>,
                            <<-param.shear.y, 1, 0, 0>>,
                            <<0, 0, 1, 0>>,
                            <<0, 0, 0, 1>>, 1)
        m_rotation == Mat4_new_rotation_z(-param.rotation)
        m_offset == Mat4_new_translation(-1, 1, 0, 1)
        m_offset_inv == Mat4_new_translation(1, -1, 0, 1)
        m_translate == Mat4_new_translation(2 * (param.dest.x + param.offset.x) * screen.h,
                                            2 * (-(param.dest.y + param.offset.y)) * screen.w,
                                            0, screen.w * screen.h)
    IN  Mat4_mul(Mat4_mul(Mat4_mul(Mat4_mul(Mat4_mul(Mat4_mul(Mat4_mul(
            m_translate, m_offset), m_aspect), m_rotation), m_scale), m_shear),
            m_aspect_inv), m_offset_inv)

\* a slip: the two aspect-ratio corrections change places
draw_transform_swaps_aspect(param, screen) ==
    LET m_aspect == Mat4_new_nonuniform_scaling(screen.w, screen.h, screen.w, screen.w)
        m_aspect_inv == Mat4_new_nonuniform_scaling(screen.h, screen.w, screen.h, screen.h)
        m_scale == Mat4_new_nonuniform_scaling(param.scale.x, param.scale.y, 1, 1)
        m_shear == Mat4_new(<<1, -param.shear.x, 0, 0>>,
                            <<-param.shear.y, 1, 0, 0>>,
                            <<0, 0, 1, 0>>,
                            <<0, 0, 0, 1>>, 1)
        m_rotation == Mat4_new_rotation_z(-param.rotation)
        m_offset == Mat4_new_translation(-1, 1, 0, 1)
        m_offset_inv == Mat4_new_translation(1, -1, 0, 1)
        m_translate == Mat4_new_translation(2 * param.dest.x * screen.h,
                                            2 * (-param.dest.y) * screen.w,
                                            0, screen.w * screen.h)
    IN  Mat4_mul(Mat4_mul(Mat4_mul(Mat4_mul(Mat4_mul(Mat4_mul(Mat4_mul(
            m_translate, m_offset), m_aspect), m_rotation), m_scale), m_shear),
            m_aspect_inv), m_offset_inv)

\* a slip: the recentring is not undone
draw_transform_recenters_twice(param, screen) ==
    LET m_aspect == Mat4_new_nonuniform_scaling(screen.h, screen.w, screen.h, screen.h)
        m_aspect_inv == Mat4_new_nonuniform_scaling(screen.w, screen.h, screen.w, screen.w)
        m_scale == Mat4_new_nonuniform_scaling(param.scale.x, param.scale.y, 1, 1)
        m_shear == Mat4_new(<<1, -param.shear.x, 0, 0>>,
                            <<-param.shear.y, 1, 0, 0>>,
                            <<0, 0, 1, 0>>,
                            <<0, 0, 0, 1>>, 1)
        m_rotation == Mat4_new_rotation_z(-param.rotation)
        m_offset == Mat4_new_translation(-1, 1, 0, 1)
        m_translate == Mat4_new_translation(2 * param.dest.x * screen.h,
                                            2 * (-param.dest.y) * screen.w,
                                            0, screen.w * screen.h)
    IN  Mat4_mul(Mat4_mul(Mat4_mul(Mat4_mul(Mat4_mul(Mat4_mul(Mat4_mul(
            m_translate, m_offset), m_aspect), m_rotation), m_scale), m_shear),
            m_aspect_inv), m_offset)

\* m_transform of draw_queued
draw_transform(param, screen) ==
    LET offset_x == -1
        offset_y == 1
        screen_w == screen.w
        screen_h == screen.h
        \* aspect = screen_h / screen_w, aspect_inv = screen_w / screen_h
        m_aspect == Mat4_new_nonuniform_scaling(screen_h, screen_w, screen_h, screen_h)
        m_aspect_inv == Mat4_new_nonuniform_scaling(screen_w, screen_h, screen_w, screen_w)
        m_scale == Mat4_new_nonuniform_scaling(param.scale.x, param.scale.y, 1, 1)
        m_shear == Mat4_new(<<1, -param.shear.x, 0, 0>>,
                            <<-param.shear.y, 1, 0, 0>>,
                            <<0, 0, 1, 0>>,
                            <<0, 0, 0, 1>>, 1)
        m_rotation == Mat4_new_rotation_z(-param.rotation)
        m_offset == Mat4_new_translation(offset_x, offset_y, 0, 1)
        m_offset_inv == Mat4_new_translation(-offset_x, -offset_y, 0, 1)
        m_translate == Mat4_new_translation(2 * param.dest.x * screen_h,
                                            2 * (-param.dest.y) * screen_w,
                                            0, screen_w * screen_h)
    IN  Mat4_mul(Mat4_mul(Mat4_mul(Mat4_mul(Mat4_mul(Mat4_mul(Mat4_mul(
            m_translate, m_offset), m_aspect), m_rotation), m_scale), m_shear),
            m_aspect_inv), m_offset_inv)

\* GlyphBrush::draw_queued_with_transform: flushed is Ok(()) or Err(message).
\* A successful flush draws the whole queue as one batch and empties it; a
\* failed one draws nothing, and the queue is kept or dropped (kept says which).
brush_draw_queued_with_transform(queued, transform, flushed, kept) ==
    IF flushed = "Ok"
    THEN [queue |-> <<>>, drawn |-> Some([transform |-> transform, sections |-> queued]),
          result |-> "Ok"]
    ELSE [queue |-> IF kept THEN queued ELSE <<>>, drawn |-> None, result |-> flushed]

\* the ? of draw_queued: an Err(String) converted to a GameError
GameError_from(message) == [UnknownError |-> message]

\* a slip: the result of the flush is dropped and Ok(()) returned
try_flush_swallows(f) ==
    [queue |-> f.queue, drawn |-> f.drawn, status |-> "Ok", ret |-> <<>>]

\* the ? and the Ok(()) that end draw_queued, applied to the outcome of the flush
try_flush(f) ==
    [queue  |-> f.queue,
     drawn  |-> f.drawn,
     status |-> IF f.result = "Ok" THEN "Ok" ELSE "Err",
     ret    |-> IF f.result = "Ok" THEN <<>> ELSE <<GameError_from(f.result)>>]

\* a slip: only the newest section of the queue is flushed
draw_queued_newest_only(queued, screen, param, flushed, kept) ==
    LET f == try_flush(brush_draw_queued_with_transform(
                           IF queued = <<>> THEN <<>> ELSE <<queued[Len(queued)]>>,
                           Mat4_into(draw_transform(param, screen)), flushed, kept))
    IN  [f EXCEPT !.queue = IF queued = <<>> THEN <<>>
                            ELSE SubSeq(queued, 1, Len(queued) - 1)]

draw_queued(queued, screen, param, flushed, kept) ==
    try_flush(brush_draw_queued_with_transform(
                  queued, Mat4_into(draw_transform(param, screen)), flushed, kept))

\* a slip: the section is placed at param.dest
draw_ex_at_dest(self, queued, context_color, screen, param, flushed, kept) ==
    draw_queued(queue(self, queued, context_color, param.dest, param.color),
                screen, param, flushed, kept)

\* Drawable::draw_ex
draw_ex(self, queued, context_color, screen, param, flushed, kept) ==
    draw_queued(queue(self, queued, context_color, param.offset, param.color),
                screen, param, flushed, kept)

-----------------------------------------------------------------------------
(* The calls of the program *)

Min(a, b) == IF a < b THEN a ELSE b

Called(op, id, args, status, ret) ==
    [op |-> op, id |-> id, args |-> args, status |-> status, ret |-> ret]

Init ==
    /\ \E first \in {new_empty} \cup {new(f) : f \in Fragments} :
           texts = [id \in TextIds |-> IF id = 1 THEN first ELSE new_empty]
    /\ glyph_queue = <<>>
    /\ foreground = WHITE
    /\ screen_rect = [w |-> 2, h |-> 2]
    /\ drawn = None
    /\ passes = 0
    /\ measured = {}
    /\ last = Called("new", 1, <<>>, "Ok", <<>>)

AddFragment(id, fragment) ==
    /\ Len(texts[id].fragments) < MaxFrags
    /\ texts' = [texts EXCEPT ![id] = add_fragment(@, fragment)]
    /\ passes' = 0
    /\ measured' = {}
    /\ last' = Called("add_fragment", id, <<>>, "Ok", <<>>)
    /\ UNCHANGED <<glyph_queue, foreground, screen_rect, drawn>>

ReplaceFragment(id, old_index, new_fragment) ==
    \E c \in {replace_fragment(texts[id], old_index, new_fragment)} :
        /\ texts' = [texts EXCEPT ![id] = c.self]
        /\ passes' = IF c.status = "Ok" THEN 0 ELSE passes
        /\ measured' = IF c.status = "Ok" THEN {} ELSE measured
        /\ last' = Called("replace_fragment", id, <<old_index>>, c.status, <<>>)
        /\ UNCHANGED <<glyph_queue, foreground, screen_rect, drawn>>

SetBounds(id, bounds, layout) ==
    /\ texts' = [texts EXCEPT ![id] = set_bounds(@, bounds, layout)]
    /\ passes' = 0
    /\ measured' = {}
    /\ last' = Called("set_bounds", id, <<bounds, layout>>, "Ok", <<>>)
    /\ UNCHANGED <<glyph_queue, foreground, screen_rect, drawn>>

SetFont(id, font_id, font_scale) ==
    /\ texts' = [texts EXCEPT ![id] = set_font(@, font_id, font_scale)]
    /\ passes' = 0
    /\ measured' = {}
    /\ last' = Called("set_font", id, <<>>, "Ok", <<>>)
    /\ UNCHANGED <<glyph_queue, foreground, screen_rect, drawn>>

SetBlendMode(id, mode) ==
    /\ texts' = [texts EXCEPT ![id] = set_blend_mode(@, mode)]
    /\ last' = Called("set_blend_mode", id, <<>>, "Ok", <<>>)
    /\ UNCHANGED <<glyph_queue, foreground, screen_rect, drawn, passes, measured>>

Width(id) ==
    \E c \in {width(texts[id], foreground)} :
        /\ texts' = [texts EXCEPT ![id] = c.self]
        /\ passes' = Min(passes + c.calls, MaxPasses)
        /\ measured' = measured \cup {"width"}
        /\ last' = Called("width", id, <<>>, "Ok", <<c.ret>>)
        /\ UNCHANGED <<glyph_queue, foreground, screen_rect, drawn>>

Height(id) ==
    \E c \in {height(texts[id], foreground)} :
        /\ texts' = [texts EXCEPT ![id] = c.self]
        /\ passes' = Min(passes + c.calls, MaxPasses)
        /\ measured' = measured \cup {"height"}
        /\ last' = Called("height", id, <<>>, "Ok", <<c.ret>>)
        /\ UNCHANGED <<glyph_queue, foreground, screen_rect, drawn>>

Contents(id) ==
    \E c \in {contents(texts[id])} :
        /\ texts' = [texts EXCEPT ![id] = c.self]
        /\ last' = Called("contents", id, <<>>, "Ok", <<c.ret>>)
        /\ UNCHANGED <<glyph_queue, foreground, screen_rect, drawn, passes, measured>>

Queue(id, relative_dest, color) ==
    /\ Len(glyph_queue) < MaxQueue
    /\ glyph_queue' = queue(texts[id], glyph_queue, foreground, relative_dest, color)
    /\ drawn' = None
    /\ last' = Called("queue", id, <<relative_dest, color>>, "Ok", <<>>)
    /\ UNCHANGED <<texts, foreground, screen_rect, passes, measured>>

QueueRaw(section, custom_layout) ==
    /\ Len(glyph_queue) < MaxQueue
    /\ glyph_queue' = queue_raw(glyph_queue, section, custom_layout)
    /\ drawn' = None
    /\ last' = Called("queue_raw", 0, <<section, custom_layout>>, "Ok", <<>>)
    /\ UNCHANGED <<texts, foreground, screen_rect, passes, measured>>

DrawQueued(param, flushed, kept) ==
    \E c \in {draw_queued(glyph_queue, screen_rect, param, flushed, kept)} :
        /\ glyph_queue' = c.queue
        /\ drawn' = c.drawn
        /\ last' = Called("draw_queued", 0, <<param, flushed>>, c.status, c.ret)
        /\ UNCHANGED <<texts, foreground, screen_rect, passes, measured>>

DrawEx(id, param, flushed, kept) ==
    /\ Len(glyph_queue) < MaxQueue
    /\ \E c \in {draw_ex(texts[id], glyph_queue, foreground, screen_rect,
                          param, flushed, kept)} :
        /\ glyph_queue' = c.queue
        /\ drawn' = c.drawn
        /\ last' = Called("draw_ex", id, <<param, flushed>>, c.status, c.ret)
        /\ UNCHANGED <<texts, foreground, screen_rect, passes, measured>>

\* the life of one TextCached: mutations and measurements in any order
Next ==
    \/ \E f \in Fragments : AddFragment(1, f)
    \/ \E i \in 0..MaxFrags, f \in Fragments : ReplaceFragment(1, i, f)
    \/ \E b \in Extents, l \in {None} \cup {Some(l) : l \in Layouts} : SetBounds(1, b, l)
    \/ \E a \in FontArgs : SetFont(1, a[1], a[2])
    \/ \E m \in BlendModes : SetBlendMode(1, m)
    \/ Width(1)
    \/ Height(1)
    \/ Contents(1)

Spec == Init /\ [][Next]_vars

\* the texts of the spec's scenario: "Hi" in the default color and "W" in red
Hello == add_fragment(new(From_text(<<"H", "i">>)), From_text_color(<<"W">>, RED))

\* a text wrapped and centred in finite bounds
Wrapped ==
    set_bounds(new(From_text_font_scale(<<" ", "o">>, 1, Scale_uniform(8))),
               Point2(4, INFINITY), Some(Layout("Wrap", "Center", "Top")))

Params ==
    { DrawParam_default,
      DrawParam_from(Point2(2, 4), 1),
      [DrawParam_default EXCEPT !.offset = Point2(3, 5), !.color = Some(GREEN),
                                !.scale = Point2(2, 1), !.shear = Point2(1, 0)] }

InitDraw ==
    /\ texts = [id \in TextIds |-> IF id = 1 THEN Hello ELSE Wrapped]
    /\ glyph_queue = <<>>
    /\ foreground = BLUE
    /\ screen_rect = [w |-> 4, h |-> 2]
    /\ drawn = None
    /\ passes = 0
    /\ measured = {}
    /\ last = Called("new", 1, <<>>, "Ok", <<>>)

\* a frame loop over several texts: queue calls and flushes in any order
NextDraw ==
    \/ \E id \in TextIds, d \in Dests, c \in ColorArgs : Queue(id, d, c)
    \/ \E s \in RawSections, l \in CustomLayouts : QueueRaw(s, l)
    \/ \E p \in Params, f \in FlushResults, k \in BOOLEAN : DrawQueued(p, f, k)
    \/ \E id \in TextIds, p \in Params, f \in FlushResults, k \in BOOLEAN :
           DrawEx(id, p, f, k)

SpecDraw == InitDraw /\ [][NextDraw]_vars

\* the texts of at most n fragments, as add_fragment builds them
RECURSIVE TextsOfAtMost(_)
TextsOfAtMost(n) ==
    IF n = 0 THEN {new_empty}
    ELSE LET shorter == TextsOfAtMost(n - 1)
         IN  shorter \cup {add_fragment(t, f) : t \in shorter, f \in Fragments}

\* the texts set_bounds and set_font make of them
SectionTexts ==
    LET bounded == {set_bounds(t, b, l) : t \in TextsOfAtMost(MaxFrags), b \in Extents,
                                          l \in {None} \cup {Some(l) : l \in Layouts}}
    IN  bounded \cup {set_font(t, a[1], a[2]) : t \in bounded, a \in FontArgs}

InitSection ==
    /\ \E t \in SectionTexts : texts = [id \in TextIds |-> IF id = 1 THEN t ELSE new_empty]
    /\ glyph_queue = <<>>
    /\ foreground \in ContextColors
    /\ screen_rect = [w |-> 2, h |-> 2]
    /\ drawn = None
    /\ passes = 0
    /\ measured = {}
    /\ last = Called("new", 1, <<>>, "Ok", <<>>)

\* generate_varied_section as a function of the text, the context's color,
\* the destination and the override: one queue call on an empty queue
NextSection ==
    \E d \in Dests, c \in ColorArgs : glyph_queue = <<>> /\ Queue(1, d, c)

SpecSection == InitSection /\ [][NextSection]_vars

\* square, wide and tall screens
Screens == { [w |-> 2, h |-> 2], [w |-> 4, h |-> 2], [w |-> 2, h |-> 4] }

TransformParams ==
    { [DrawParam_default EXCEPT !.dest = d, !.rotation = r, !.scale = s, !.shear = h] :
          d \in {Point2(0, 0), Point2(2, 4)}, r \in {0, 1},
          s \in {Point2(1, 1), Point2(2, 1)}, h \in {Point2(0, 0), Point2(1, 2)} }
    \cup Params
    \cup { [DrawParam_default EXCEPT !.offset = Point2(3, 5), !.color = Some(GREEN)],
           [DrawParam_from(Point2(2, 4), 1) EXCEPT !.offset = Point2(3, 5),
                                                   !.color = Some(RED)] }

InitTransform ==
    /\ texts = [id \in TextIds |-> IF id = 1 THEN Hello ELSE Wrapped]
    /\ glyph_queue = <<>>
    /\ foreground = BLUE
    /\ screen_rect \in Screens
    /\ drawn = None
    /\ passes = 0
    /\ measured = {}
    /\ last = Called("new", 1, <<>>, "Ok", <<>>)

\* draw_queued as a function of the parameters and the screen: a section is
\* queued on the empty queue, and the queue is flushed
NextTransform ==
    \/ \E id \in TextIds : glyph_queue = <<>> /\ Queue(id, Point2(0, 0), None)
    \/ \E p \in TransformParams, f \in FlushResults, k \in BOOLEAN : DrawQueued(p, f, k)

SpecTransform == InitTransform /\ [][NextTransform]_vars

-----------------------------------------------------------------------------
(* Properties of the caches and the mutations (checked under Spec) *)

Mutations == {"add_fragment", "replace_fragment", "set_bounds", "set_font"}

\* what a measurement of self from scratch gives, whatever its caches hold
fresh_dimensions(self) ==
    max_extents(calculate_glyphs(
                    generate_varied_section(self, foreground, Point2(0, 0), None)),
                <<0, 0>>)

RECURSIVE text_length(_)
text_length(fragments) ==
    IF fragments = <<>> THEN 0
    ELSE Len(Head(fragments).text) + text_length(Tail(fragments))

\* string is the fragments' texts one after the other: the k-th character of
\* fragment i stands at position (length of the fragments before i) + k
is_concatenation(string, fragments) ==
    /\ Len(string) = text_length(fragments)
    /\ \A i \in 1..Len(fragments) : \A k \in 1..Len(fragments[i].text) :
           string[text_length(SubSeq(fragments, 1, i - 1)) + k] = fragments[i].text[k]

\* C1: every value width(), height() or contents() returns is the value a fresh
\* computation over the aggregate's current fragments, bounds, layout and
\* default font and scale gives; no value cached before a mutation is returned
\* after it.
C1_ReturnsFreshValues ==
    /\ last.op = "width" => last.ret = <<fresh_dimensions(texts[last.id])[1]>>
    /\ last.op = "height" => last.ret = <<fresh_dimensions(texts[last.id])[2]>>
    /\ last.op = "contents" => is_concatenation(last.ret[1], texts[last.id].fragments)

\* a measurement of a text that was mutated after construction: two fragments
\* wrapped in finite bounds, with a nonzero width returned
C1_Witness ==
    /\ last.op = "width"
    /\ Len(texts[last.id].fragments) = 2
    /\ texts[last.id].bounds.x # INFINITY
    /\ last.ret # <<0>>
    /\ "height" \in measured

\* C2 as stated: the three cache fields are all absent or all present.
C2_AllOrNothing ==
    \A id \in TextIds :
        \/ /\ texts[id].cached_string = None
           /\ texts[id].cached_width = None
           /\ texts[id].cached_height = None
        \/ /\ is_some(texts[id].cached_string)
           /\ is_some(texts[id].cached_width)
           /\ is_some(texts[id].cached_height)

\* C2 as amended: the cached width and height are both absent or both present,
\* the cached string is filled on its own (by contents() alone), every cache
\* field that is present agrees with the current fragments, bounds, layout and
\* defaults, and right after a mutation all three are absent.
C2_CachesConsistent ==
    \A id \in TextIds :
        LET self == texts[id] IN
        /\ is_some(self.cached_width) <=> is_some(self.cached_height)
        /\ is_some(self.cached_width) =>
               self.cached_width = Some(fresh_dimensions(self)[1])
        /\ is_some(self.cached_height) =>
               self.cached_height = Some(fresh_dimensions(self)[2])
        /\ is_some(self.cached_string) =>
               is_concatenation(unwrap(self.cached_string), self.fragments)
        /\ (last.id = id /\ last.op \in Mutations /\ last.status = "Ok") =>
               /\ self.cached_string = None
               /\ self.cached_width = None
               /\ self.cached_height = None

\* a partial cache: after a mutation, contents() has cached the string and
\* the dimensions are still absent
C2_Witness ==
    /\ last.op = "contents"
    /\ measured = {}
    /\ Len(texts[last.id].fragments) = 2
    /\ is_some(texts[last.id].cached_string)
    /\ texts[last.id].cached_width = None
    /\ texts[last.id].cached_height = None

\* C3 as stated: replace_fragment with an index not below the fragment count
\* returns an out-of-range error to the caller and leaves the aggregate as it was.
C3_ReturnsError ==
    [][(last'.op = "replace_fragment" /\ last'.args[1] >= Len(texts[last'.id].fragments))
         => (last'.status = "Err" /\ texts' = texts)]_vars

\* C3 as amended: replace_fragment with an index not below the fragment count
\* panics (the indexing's bounds check; the method has no error value to
\* return), and the aggregate is left exactly as it was: fragments, bounds,
\* layout, defaults and all cache fields.
C3_PanicsUnmodified ==
    [][(last'.op = "replace_fragment" /\ last'.args[1] >= Len(texts[last'.id].fragments))
         => (last'.status = "Panic" /\ texts' = texts)]_vars

\* an out-of-range replace_fragment on a text that has fragments and filled caches
C3_Witness ==
    /\ last.op = "replace_fragment"
    /\ last.status = "Panic"
    /\ last.args[1] >= Len(texts[last.id].fragments)
    /\ Len(texts[last.id].fragments) >= 1
    /\ is_some(texts[last.id].cached_string)
    /\ is_some(texts[last.id].cached_width)

\* C4: contents() returns the texts of the fragments currently in the aggregate,
\* concatenated in sequence order with no separators, and the empty string for
\* an aggregate with no fragments.
C4_ContentsConcatenates ==
    last.op = "contents" =>
        /\ is_concatenation(last.ret[1], texts[last.id].fragments)
        /\ texts[last.id].fragments = <<>> => last.ret[1] = <<>>
        /\ Len(texts[last.id].fragments) = 2 =>
               last.ret[1] = texts[last.id].fragments[1].text
                             \o texts[last.id].fragments[2].text

\* contents() of two fragments with different texts
C4_Witness ==
    /\ last.op = "contents"
    /\ Len(texts[last.id].fragments) = 2
    /\ texts[last.id].fragments[1].text # texts[last.id].fragments[2].text
    /\ Len(last.ret[1]) = 3

\* C5: set_bounds with extent.x = +infinity leaves the layout equal to the
\* default layout, whether the layout argument is absent or explicit.
C5_InfiniteBoundsResetLayout ==
    (last.op = "set_bounds" /\ last.args[1].x = INFINITY)
        => texts[last.id].layout = Layout_default

\* set_bounds with infinite x and an explicit layout other than the default
C5_Witness ==
    /\ last.op = "set_bounds"
    /\ last.args[1].x = INFINITY
    /\ is_some(last.args[2])
    /\ unwrap(last.args[2]) # Layout_default
    /\ texts[last.id].layout = Layout_default

\* C6: one measurement pass fills both dimension caches: between two
\* mutations calculate_glyphs runs at most once however many width() and
\* height() calls are made, and after either call both caches are present.
C6_SinglePass ==
    /\ passes <= 1
    /\ measured # {} =>
           /\ passes = 1
           /\ is_some(texts[last.id].cached_width)
           /\ is_some(texts[last.id].cached_height)

\* height() after width() with no mutation in between, with one pass run
C6_Witness ==
    /\ last.op = "height"
    /\ measured = {"width", "height"}
    /\ passes = 1


-----------------------------------------------------------------------------
(* Properties of the layout section (checked under SpecSection) *)

\* the section the last queue call appended
queued_section == glyph_queue[Len(glyph_queue)].section

\* C7: the section's x-position is d.x + bounds.x/2 for center alignment,
\* d.x + bounds.x for right alignment and d.x for left alignment when bounds.x
\* is finite and the layout wraps; it is d.x when bounds.x is +infinity or the
\* layout does not wrap; the y-position is always d.y.
C7_SectionPosition ==
    last.op = "queue" =>
        LET self == texts[last.id]
            d == last.args[1]
            x == queued_section.screen_position[1]
            y == queued_section.screen_position[2]
        IN  /\ y = d.y
            /\ (self.bounds.x # INFINITY /\ self.layout.kind = "Wrap") =>
                   /\ self.layout.h_align = "Center" => 2 * (x - d.x) = self.bounds.x
                   /\ self.layout.h_align = "Right" => x - d.x = self.bounds.x
                   /\ self.layout.h_align = "Left" => x = d.x
            /\ (self.bounds.x = INFINITY \/ self.layout.kind # "Wrap") => x = d.x

\* a text centred in bounds 4 wide, queued at x = 3: the section stands at x = 5
C7_Witness ==
    /\ last.op = "queue"
    /\ texts[last.id].bounds.x = 4
    /\ texts[last.id].layout = Layout("Wrap", "Center", "Top")
    /\ last.args[1] = Point2(3, 5)
    /\ queued_section.screen_position = <<5, 5>>

\* C8: each fragment's run takes the fragment's color if set, else the
\* override color if present, else the context's default color; the
\* fragment's font if set, else the aggregate's; the fragment's scale if set,
\* else the aggregate's.  A fragment's own color is never overridden.
C8_StyleFallback ==
    last.op = "queue" =>
        LET self == texts[last.id]
            override == last.args[2]
        IN  /\ Len(queued_section.text) = Len(self.fragments)
            /\ \A i \in 1..Len(self.fragments) :
                   LET f == self.fragments[i]
                       run == queued_section.text[i]
                   IN  /\ is_some(f.color) =>
                              run.color = <<f.color[1].r, f.color[1].g, f.color[1].b, f.color[1].a>>
                       /\ (f.color = None /\ is_some(override)) =>
                              run.color = <<override[1].r, override[1].g,
                                            override[1].b, override[1].a>>
                       /\ (f.color = None /\ override = None) =>
                              run.color = <<foreground.r, foreground.g,
                                            foreground.b, foreground.a>>
                       /\ is_some(f.font_id) => run.font_id = f.font_id[1]
                       /\ f.font_id = None => run.font_id = self.font_id
                       /\ is_some(f.scale) => run.scale = f.scale[1]
                       /\ f.scale = None => run.scale = self.font_scale

\* "Hi" without a color and "W" in red, queued with a green override in a
\* context whose color is blue: the runs are green and red
C8_Witness ==
    /\ last.op = "queue"
    /\ last.args[2] = Some(GREEN)
    /\ foreground = BLUE
    /\ Len(texts[last.id].fragments) = 2
    /\ texts[last.id].fragments[1].color = None
    /\ texts[last.id].fragments[2].color = Some(RED)
    /\ queued_section.text[1].color = <<0, 1, 0, 1>>
    /\ queued_section.text[2].color = <<1, 0, 0, 1>>

-----------------------------------------------------------------------------
(* Properties of the shared glyph queue (checked under SpecDraw) *)

\* the queue entry of the section of self at relative_dest with override color
section_entry(self, relative_dest, color) ==
    LET section == generate_varied_section(self, foreground, relative_dest, color)
    IN  [section |-> section, positioner |-> section.layout]

\* C9: a successful draw_queued submits every pending entry of the shared
\* queue as one batch, whichever texts queued them, and leaves none pending.
C9_FlushesWholeQueue ==
    [][(last'.op = "draw_queued" /\ last'.status = "Ok") =>
           /\ is_some(drawn')
           /\ unwrap(drawn').sections = glyph_queue
           /\ glyph_queue' = <<>>]_vars

\* a draw_queued that drew a batch of two sections, the first queued by
\* text 1 and the second by text 2, and left the queue empty
C9_Witness ==
    /\ last.op = "draw_queued"
    /\ last.status = "Ok"
    /\ glyph_queue = <<>>
    /\ is_some(drawn)
    /\ Len(unwrap(drawn).sections) = 2
    /\ \E d \in Dests, c \in ColorArgs :
           unwrap(drawn).sections[1] = section_entry(texts[1], d, c)
    /\ \E d \in Dests, c \in ColorArgs :
           unwrap(drawn).sections[2] = section_entry(texts[2], d, c)

\* C10: draw_ex appends the text's section, built with param.offset as the
\* relative destination and param.color as the override, to the shared queue
\* and flushes the whole queue with param: a successful flush draws every
\* section queued earlier and this one after them, in one batch; a failed
\* flush draws nothing.
C10_DrawExQueuesThenFlushes ==
    [][last'.op = "draw_ex" =>
           LET param == last'.args[1]
               batch == Append(glyph_queue,
                               section_entry(texts[last'.id], param.offset, param.color))
           IN  /\ last'.status = "Ok" =>
                      /\ drawn' = Some([transform |-> Mat4_into(draw_transform(param, screen_rect)),
                                        sections |-> batch])
                      /\ glyph_queue' = <<>>
               /\ last'.status # "Ok" =>
                      /\ drawn' = None
                      /\ glyph_queue' \in {batch, <<>>}]_vars

\* a draw_ex of text 1 with an offset and a color, while a section of text 2
\* was pending: the batch drawn holds the section of text 2 and then the
\* section of text 1
C10_Witness ==
    /\ last.op = "draw_ex"
    /\ last.id = 1
    /\ last.status = "Ok"
    /\ last.args[1].offset = Point2(3, 5)
    /\ last.args[1].color = Some(GREEN)
    /\ is_some(drawn)
    /\ Len(unwrap(drawn).sections) = 2
    /\ \E d \in Dests, c \in ColorArgs :
           unwrap(drawn).sections[1] = section_entry(texts[2], d, c)
    /\ unwrap(drawn).sections[2] = section_entry(texts[1], Point2(3, 5), Some(GREEN))

\* C11: a queue call appends exactly one section to the shared queue, has
\* nothing drawn and leaves every text as it was; the sections already queued
\* keep their places until the next flush, which submits the queue in the
\* order of the queue calls as one batch.
C11_QueueAccumulates ==
    [][/\ last'.op = "queue" =>
              /\ glyph_queue' = Append(glyph_queue,
                                       section_entry(texts[last'.id], last'.args[1],
                                                     last'.args[2]))
              /\ drawn' = None
              /\ texts' = texts
       /\ last'.op = "queue_raw" =>
              /\ Len(glyph_queue') = Len(glyph_queue) + 1
              /\ SubSeq(glyph_queue', 1, Len(glyph_queue)) = glyph_queue
              /\ drawn' = None
       /\ (last'.op = "draw_queued" /\ last'.status = "Ok") =>
              /\ Len(unwrap(drawn').sections) = Len(glyph_queue)
              /\ \A i \in 1..Len(glyph_queue) :
                     unwrap(drawn').sections[i] = glyph_queue[i]]_vars

\* two queue calls, of text 2 and then of text 1 with other arguments, and
\* nothing drawn: the queue holds the two sections in the order of the calls
C11_Witness ==
    /\ last.op = "queue"
    /\ last.id = 1
    /\ last.args = <<Point2(3, 5), Some(GREEN)>>
    /\ drawn = None
    /\ Len(glyph_queue) = 2
    /\ glyph_queue[1] = section_entry(texts[2], Point2(0, 0), None)
    /\ glyph_queue[2] = section_entry(texts[1], Point2(3, 5), Some(GREEN))
    /\ glyph_queue[1] # glyph_queue[2]

-----------------------------------------------------------------------------
(* Properties of the draw transform (checked under SpecTransform) *)

\* C13: what draw_queued submits does not depend on param.color or
\* param.offset: a call that differs from the one made only in its color and
\* offset, on the same screen and queue, submits the same transform and the
\* same sections, and leaves the same queue.
C13_IgnoresColorAndOffset ==
    [][(last'.op = "draw_queued" /\ last'.status = "Ok") =>
           \A o \in Dests, c \in ColorArgs \cup {Some(RED)} :
               LET other == draw_queued(glyph_queue, screen_rect,
                                        [last'.args[1] EXCEPT !.offset = o, !.color = c],
                                        "Ok", TRUE)
               IN  /\ other.drawn = drawn'
                   /\ other.queue = glyph_queue']_vars

\* a draw_queued with a color and an offset that drew a section on a wide screen
C13_Witness ==
    /\ last.op = "draw_queued"
    /\ last.status = "Ok"
    /\ last.args[1].color = Some(RED)
    /\ last.args[1].offset = Point2(3, 5)
    /\ last.args[1].dest = Point2(2, 4)
    /\ screen_rect = [w |-> 4, h |-> 2]
    /\ is_some(drawn)
    /\ Len(unwrap(drawn).sections) = 1

\* the points a transform is probed with: they span the plane
TestPoints == { Point2(0, 0), Point2(1, 0), Point2(0, 1), Point2(1, 1) }

\* the point (x / d, y / d) a transform, as submitted, sends the point p to
transformed(m, p) ==
    [x |-> m.c[1][1] * p.x + m.c[2][1] * p.y + m.c[4][1],
     y |-> m.c[1][2] * p.x + m.c[2][2] * p.y + m.c[4][2],
     d |-> m.d]

\* the point (x / d, y / d) reached from p by the steps of the composition one
\* after the other, with y scaled by before.n / before.d ahead of the
\* shear/scale/rotation stack and by after.n / after.d behind it
point_through(param, screen, before, after, p) ==
    LET x1 == p.x + 1
        y1 == p.y - 1
        x2 == x1 * before.d
        y2 == y1 * before.n
        x3 == x2 - param.shear.x * y2
        y3 == y2 - param.shear.y * x2
        x4 == x3 * param.scale.x
        y4 == y3 * param.scale.y
        x5 == cos_quarter(-param.rotation) * x4 - sin_quarter(-param.rotation) * y4
        y5 == sin_quarter(-param.rotation) * x4 + cos_quarter(-param.rotation) * y4
        x6 == x5 * after.d
        y6 == y5 * after.n
        d6 == before.d * after.d
        x7 == x6 - d6
        y7 == y6 + d6
    IN  [x |-> x7 * screen.w * screen.h + 2 * param.dest.x * screen.h * d6,
         y |-> y7 * screen.w * screen.h - 2 * param.dest.y * screen.w * d6,
         d |-> d6 * screen.w * screen.h]

same_point(a, b) == a.x * b.d = b.x * a.d /\ a.y * b.d = b.y * a.d

\* C14 as stated: the correction applied to a point before the
\* shear/scale/rotation stack scales y by screen_w / screen_h, and the one
\* applied after the stack scales y by screen_h / screen_w.
C14_WidthOverHeightFirst ==
    (last.op = "draw_queued" /\ last.status = "Ok") =>
        \A p \in TestPoints :
            same_point(transformed(unwrap(drawn).transform, p),
                       point_through(last.args[1], screen_rect,
                                     [n |-> screen_rect.w, d |-> screen_rect.h],
                                     [n |-> screen_rect.h, d |-> screen_rect.w], p))

\* C14, amended: the correction applied to a point before the
\* shear/scale/rotation stack scales y by screen_h / screen_w, and the one
\* applied after the stack scales y by screen_w / screen_h.
C14_HeightOverWidthFirst ==
    (last.op = "draw_queued" /\ last.status = "Ok") =>
        \A p \in TestPoints :
            same_point(transformed(unwrap(drawn).transform, p),
                       point_through(last.args[1], screen_rect,
                                     [n |-> screen_rect.h, d |-> screen_rect.w],
                                     [n |-> screen_rect.w, d |-> screen_rect.h], p))

\* a quarter turn with a shear was drawn on a screen that is not square
C14_Witness ==
    /\ last.op = "draw_queued"
    /\ last.status = "Ok"
    /\ last.args[1].rotation = 1
    /\ last.args[1].shear = Point2(1, 2)
    /\ last.args[1].scale = Point2(2, 1)
    /\ screen_rect = [w |-> 2, h |-> 4]
    /\ Len(unwrap(drawn).sections) = 1

\* the identity matrix, column by column, as submitted
Identity ==
    [c |-> << <<1, 0, 0, 0>>, <<0, 1, 0, 0>>, <<0, 0, 1, 0>>, <<0, 0, 0, 1>> >>, d |-> 1]

neutral_param(param) ==
    /\ param.dest = Point2(0, 0)
    /\ param.rotation = 0
    /\ param.scale = Point2(1, 1)
    /\ param.shear = Point2(0, 0)

\* C15: with destination (0,0), rotation 0, scale (1,1) and shear (0,0) on a
\* square screen the transform draw_queued submits is the identity matrix,
\* and every probed point is sent to itself.
C15_IdentityOnSquareScreen ==
    (/\ last.op = "draw_queued"
     /\ last.status = "Ok"
     /\ neutral_param(last.args[1])
     /\ screen_rect.w = screen_rect.h) =>
        /\ unwrap(drawn).transform = Identity
        /\ \A p \in TestPoints :
               same_point(transformed(unwrap(drawn).transform, p),
                          [x |-> p.x, y |-> p.y, d |-> 1])

\* the neutral parameters drew a section on the square screen
C15_Witness ==
    /\ last.op = "draw_queued"
    /\ last.status = "Ok"
    /\ neutral_param(last.args[1])
    /\ last.args[1].offset = Point2(0, 0)
    /\ screen_rect = [w |-> 2, h |-> 2]
    /\ unwrap(drawn).transform = Identity
    /\ Len(unwrap(drawn).sections) = 1

-----------------------------------------------------------------------------
(* Properties of the measurement and of the bounds (checked under Spec) *)

\* the pixel bounding boxes of the glyphs a layout of self from scratch gives
bounding_boxes(self) ==
    LET glyphed == calculate_glyphs(
                       generate_varied_section(self, foreground, Point2(0, 0), None))
    IN  UNION { { unwrap(glyphed[r][k].pixel_bounding_box) :
                      k \in { j \in 1..Len(glyphed[r]) :
                                 is_some(glyphed[r][j].pixel_bounding_box) } } :
                  r \in 1..Len(glyphed) }

greatest(values) == CHOOSE m \in values : \A v \in values : v <= m

\* C16: the width returned is the greatest right edge and the height returned
\* the greatest bottom edge over the laid-out glyphs that have a pixel
\* bounding box, never below 0; glyphs without a box do not count; with no
\* fragments, with no glyph that has a box, or with every box at non-positive
\* coordinates, the dimension is 0.
C16_GreatestEdges ==
    \A id \in TextIds :
        LET boxes == bounding_boxes(texts[id])
            right == greatest({0} \cup {b.max.x : b \in boxes})
            bottom == greatest({0} \cup {b.max.y : b \in boxes})
        IN  /\ is_some(texts[id].cached_width) =>
                /\ unwrap(texts[id].cached_width) = right
                /\ unwrap(texts[id].cached_height) = bottom
            /\ (last.id = id /\ last.op = "width") =>
                /\ last.ret[1] = right
                /\ last.ret[1] >= 0
                /\ (texts[id].fragments = <<>> \/ boxes = {}
                      \/ \A b \in boxes : b.max.x <= 0) => last.ret[1] = 0
            /\ (last.id = id /\ last.op = "height") =>
                /\ last.ret[1] = bottom
                /\ last.ret[1] >= 0
                /\ (texts[id].fragments = <<>> \/ boxes = {}
                      \/ \A b \in boxes : b.max.y <= 0) => last.ret[1] = 0

\* the width of "Hi" followed by a space is that of "Hi": the space has no box
C16_Witness ==
    /\ last.op = "width"
    /\ Len(texts[last.id].fragments) = 2
    /\ texts[last.id].fragments[1].text = <<"H", "i">>
    /\ texts[last.id].fragments[2].text = <<" ">>
    /\ texts[last.id].bounds.x = INFINITY
    /\ last.ret[1] = 4
    /\ Cardinality(bounding_boxes(texts[last.id])) = 2

\* an aggregate without fragments measures 0
C16_WitnessEmpty ==
    /\ last.op = "height"
    /\ texts[last.id].fragments = <<>>
    /\ last.ret[1] = 0
    /\ texts[last.id].cached_width = Some(0)

\* an aggregate of spaces measures 0
C16_WitnessBlank ==
    /\ last.op = "width"
    /\ texts[last.id].fragments # <<>>
    /\ bounding_boxes(texts[last.id]) = {}
    /\ last.ret[1] = 0
    /\ texts[last.id].cached_height = Some(0)

\* glyphs laid out to the left of and above the origin measure 0
C16_WitnessNonPositive ==
    /\ last.op = "width"
    /\ bounding_boxes(texts[last.id]) # {}
    /\ \A b \in bounding_boxes(texts[last.id]) : b.max.x <= 0 /\ b.max.y <= 0
    /\ last.ret[1] = 0
    /\ texts[last.id].cached_height = Some(0)

\* C17: set_bounds with a finite extent.x sets the layout to the layout
\* supplied, and leaves the layout as it was when none is supplied; so after
\* infinite bounds a set_bounds with a finite extent and no layout keeps the
\* default layout.
C17_FiniteBoundsLayout ==
    [][(last'.op = "set_bounds" /\ last'.args[1].x # INFINITY) =>
           /\ texts'[last'.id].bounds = last'.args[1]
           /\ is_some(last'.args[2]) => texts'[last'.id].layout = unwrap(last'.args[2])
           /\ last'.args[2] = None => texts'[last'.id].layout = texts[last'.id].layout
           /\ (last'.args[2] = None /\ texts[last'.id].bounds.x = INFINITY) =>
                  texts'[last'.id].layout = Layout_default]_vars

\* finite bounds set without a layout on a text whose layout is not the default
C17_Witness ==
    /\ last.op = "set_bounds"
    /\ last.args[1] = Point2(2, 6)
    /\ last.args[2] = None
    /\ texts[last.id].bounds = Point2(2, 6)
    /\ texts[last.id].layout = Layout("Wrap", "Right", "Center")

\* finite bounds set without a layout while the default layout is in force
C17_WitnessDefaultKept ==
    /\ last.op = "set_bounds"
    /\ last.args[1] = Point2(4, INFINITY)
    /\ last.args[2] = None
    /\ texts[last.id].layout = Layout_default
    /\ Len(texts[last.id].fragments) = 2

-----------------------------------------------------------------------------
(* The runs of the layout section (checked under SpecSection) *)

\* C18: the section built for a text has one run per fragment, in the
\* fragments' order, the i-th run carrying the i-th fragment's text; a text
\* without fragments gives a section without runs; the section's bounds and
\* layout are the text's.
C18_OneRunPerFragment ==
    last.op = "queue" =>
        LET self == texts[last.id]
            section == glyph_queue[Len(glyph_queue)].section
        IN  /\ Len(section.text) = Len(self.fragments)
            /\ \A i \in 1..Len(self.fragments) : section.text[i].text = self.fragments[i].text
            /\ self.fragments = <<>> => section.text = <<>>
            /\ section.bounds = <<self.bounds.x, self.bounds.y>>
            /\ section.layout = self.layout

\* a text of two different fragments, bounded and right-aligned, was queued
C18_Witness ==
    /\ last.op = "queue"
    /\ Len(texts[last.id].fragments) = 2
    /\ texts[last.id].fragments[1].text = <<"W">>
    /\ texts[last.id].fragments[2].text = <<"H", "i">>
    /\ texts[last.id].bounds = Point2(2, 6)
    /\ texts[last.id].layout = Layout("Wrap", "Right", "Center")
    /\ Len(glyph_queue[Len(glyph_queue)].section.text) = 2

\* a text without fragments was queued
C18_WitnessEmpty ==
    /\ last.op = "queue"
    /\ texts[last.id].fragments = <<>>
    /\ glyph_queue[Len(glyph_queue)].section.text = <<>>
    /\ texts[last.id].bounds = Point2(4, INFINITY)

-----------------------------------------------------------------------------
(* Invariants of the text (checked under Spec) *)

\* C19: in every reachable state, a text whose bounds.x is +infinity has the
\* default layout.
C19_UnboundedMeansDefaultLayout ==
    \A id \in TextIds :
        texts[id].bounds.x = INFINITY => texts[id].layout = Layout_default

\* infinite bounds were set, with a layout, on a text of two fragments
C19_Witness ==
    /\ last.op = "set_bounds"
    /\ last.args[1] = Point2(INFINITY, INFINITY)
    /\ last.args[2] = Some(Layout("Wrap", "Right", "Center"))
    /\ Len(texts[last.id].fragments) = 2
    /\ texts[last.id].bounds.x = INFINITY
    /\ texts[last.id].layout = Layout_default

\* C20: in every reachable state the cached width is present exactly when the
\* cached height is present: a measurement sets both, a mutation clears both.
C20_DimensionCachesTogether ==
    \A id \in TextIds :
        /\ is_some(texts[id].cached_width) <=> is_some(texts[id].cached_height)
        /\ (last.id = id /\ last.op \in {"width", "height"}) =>
               is_some(texts[id].cached_width) /\ is_some(texts[id].cached_height)
        /\ (last.id = id /\ last.op \in Mutations /\ last.status = "Ok") =>
               texts[id].cached_width = None /\ texts[id].cached_height = None

\* height() alone was called since the last mutation: the width is cached
\* too, while the string is not
C20_Witness ==
    /\ last.op = "height"
    /\ measured = {"height"}
    /\ is_some(texts[last.id].cached_width)
    /\ texts[last.id].cached_width # Some(0)
    /\ is_some(texts[last.id].cached_height)
    /\ texts[last.id].cached_string = None

\* after a mutation both dimension caches are absent
C20_WitnessCleared ==
    /\ last.op = "set_font"
    /\ texts[last.id].cached_width = None
    /\ texts[last.id].cached_height = None
    /\ is_some(texts[last.id].cached_string) = FALSE
    /\ Len(texts[last.id].fragments) = 1

=============================================================================
